---- MODULE Spec2Model ----
(***************************************************************************)
(* The calculator of 4-context-free-grammar/calc4.py as a state machine,   *)
(* and, in sections of their own, those of calc3.py and calc1.py.          *)
(*                                                                         *)
(* The Python call stack is the variable `stack`: one frame per active     *)
(* call, the locals of the call in the frame.  The Lexer object is the     *)
(* variables text, pos, current_char; the Interpreter object is the        *)
(* variable current_token (its lexer field is the one Lexer).  An          *)
(* exception that nothing catches unwinds every frame: the process ends    *)
(* with `exc` set.  Python positions are 0-based, TLA+ sequences 1-based:  *)
(* the Python text[p] is text[p + 1] here.                                 *)
(*                                                                         *)
(* Numbers: a Python int n is [num |-> n, den |-> 1, float |-> FALSE]; the *)
(* result of a true division is the exact quotient in lowest terms, marked *)
(* float.  The rounding of IEEE doubles is not modelled.                   *)
(*                                                                         *)
(* Three variables record what the program did and are read by no action:  *)
(* history, the evaluations that have ended; lexed, the tokens the current *)
(* Lexer has returned; advances, the calls of advance() on it.             *)
(***************************************************************************)
EXTENDS Integers, Sequences, FiniteSets, TLC

VARIABLES stack, stdin, text, pos, current_char, current_token, exc, history,
          lexed, advances

vars == <<stack, stdin, text, pos, current_char, current_token, exc, history,
          lexed, advances>>

\* ------------------------------------------------------------------ bounds
\* Longest line of a session of one line of any characters (Spec).
MaxLen == 4

\* Longest line of a session of one line without invalid characters
\* (SpecArith).
ArithMaxLen == 5

\* Longest line of a session of several lines (SpecSession).
SessionMaxLen == 4

\* Longest text of a Lexer used without the grammar (SpecLexer), and the
\* most calls of get_next_token made on it.
LexMaxLen == 3

MaxCalls == 6

\* The characters a line is made of: two digits, a blank, the four signs and
\* one character that begins no token.
Chars == {"0", "2", " ", "+", "-", "*", "/", "&"}

\* The same without the character that begins no token.
ArithChars == {"0", "2", " ", "+", "-", "*", "/"}

\* One digit, a blank, a sign of each kind and the character that begins no
\* token.
SessionChars == {"2", " ", "+", "/", "&"}

\* The non-empty lines of at most n characters of the set chars.
Texts(chars, n) == UNION {[1..k -> chars] : k \in 1..n}

\* --------------------------------------------------------------- constants
None == "None"

INTEGER == "INTEGER"

S_SIGN == "+|-"

M_SIGN == "*|/"

EOF == "EOF"

\* summation_signs, had the list held the sign of the multiplication too.
summation_signs_Star == {"+", "-", "*"}

summation_signs == {"+", "-"}

multiplication_signs == {"*", "/"}

Token(type, value) == [type |-> type, value |-> value]

\* No Interpreter has been constructed yet.
NoToken == Token(None, None)

\* ------------------------------------------------------------ str methods
\* IsSpace, were the blank no whitespace.
IsSpace_Never(c) == FALSE

\* str.isspace, str.isdigit
IsSpace(c) == c \in {" "}

DigitValue == [c \in {"0", "1", "2", "3", "4", "5", "6", "7", "8", "9"} |->
                 CASE c = "0" -> 0 [] c = "1" -> 1 [] c = "2" -> 2 [] c = "3" -> 3
                   [] c = "4" -> 4 [] c = "5" -> 5 [] c = "6" -> 6 [] c = "7" -> 7
                   [] c = "8" -> 8 [] c = "9" -> 9]

IsDigit(c) == c \in DOMAIN DigitValue

\* int(result) of a string of decimal digits, most significant first.
RECURSIVE ToInt(_)
ToInt(s) == IF Len(s) = 0 THEN 0
            ELSE 10 * ToInt(SubSeq(s, 1, Len(s) - 1)) + DigitValue[s[Len(s)]]

\* ---------------------------------------------------------------- numbers
PyInt(n) == [num |-> n, den |-> 1, float |-> FALSE]

\* The slot holds no number (an unbound local).
NoResult == [num |-> 0, den |-> 0, float |-> FALSE]

Abs(n) == IF n < 0 THEN -n ELSE n

RECURSIVE Gcd(_, _)
Gcd(a, b) == IF b = 0 THEN a ELSE Gcd(b, a % b)

\* n / d in lowest terms, the denominator positive.  A zero denominator (no
\* such number is ever made: line 169 raises first) would stand for inf, nan.
Norm(n, d, f) == LET s == IF d < 0 THEN -1 ELSE 1
                     g == IF n = 0 /\ d = 0 THEN 1 ELSE Gcd(Abs(n), Abs(d))
                 IN  [num |-> (s * n) \div g, den |-> (s * d) \div g, float |-> f]

PyAdd(a, b) == Norm(a.num * b.den + b.num * a.den, a.den * b.den, a.float \/ b.float)

PySub(a, b) == Norm(a.num * b.den - b.num * a.den, a.den * b.den, a.float \/ b.float)

PyMul(a, b) == Norm(a.num * b.num, a.den * b.den, a.float \/ b.float)

\* a / b for b # 0: Python 3's true division, always a float.
PyTrueDiv(a, b) == Norm(a.num * b.den, a.den * b.num, TRUE)

\* ------------------------------------------------------------- exceptions
NoExc == [type |-> None, msg |-> None, args |-> <<>>]

\* Lexer.error: the exception carries its message and nothing else.
InvalidCharacter == [type |-> "Exception", msg |-> "Invalid character", args |-> <<>>]

\* Interpreter.error
InvalidSyntax == [type |-> "Exception", msg |-> "Invalid syntax", args |-> <<>>]

\* What Python raises for x / 0.
ZeroDivisionError == [type |-> "ZeroDivisionError", msg |-> "division by zero", args |-> <<>>]

\* What Python raises for text[0] of an empty text.
IndexError == [type |-> "IndexError", msg |-> "string index out of range", args |-> <<>>]

\* ------------------------------------------------------------------ stack
Top == stack[Len(stack)]

Caller == stack[Len(stack) - 1]

Running(fn) == stack # <<>> /\ Top.fn = fn

SetTop(f) == [stack EXCEPT ![Len(stack)] = f]

\* The top frame returns and its caller goes on as frame f.
Return(f) == Append(SubSeq(stack, 1, Len(stack) - 2), f)

MainFrame == [fn |-> "main", at |-> "input", text |-> <<>>, result |-> NoResult]

EatFrame(token_type, token_values) ==
    [fn |-> "eat", token_type |-> token_type, token_values |-> token_values]

FactorFrame == [fn |-> "factor", at |-> "eat", token |-> NoToken]

MExprFrame == [fn |-> "m_expr", at |-> "first", result |-> NoResult, token |-> NoToken]

ExprFrame == [fn |-> "expr", at |-> "first", result |-> NoResult, token |-> NoToken]

\* What one evaluation came to: the exception that ended it, or the number
\* main printed.
Outcome(line, e, value) == [text |-> line, exc |-> e, printed |-> value]

\* Nothing catches the exception e: every frame is unwound and the process
\* ends.  The objects are left as they were when e was raised.
Raise(e) ==
    /\ stack' = <<>>
    /\ exc' = e
    /\ history' = Append(history, Outcome(text, e, NoResult))
    /\ UNCHANGED <<stdin, text, pos, current_char, current_token, lexed, advances>>

\* ------------------------------------------------------------------ Lexer
\* CharAt, had advance() cached a blank past the end of the text.
CharAt_Blank(txt, p) == IF p > Len(txt) - 1 THEN " " ELSE txt[p + 1]

\* The character advance() caches for position p.
CharAt(txt, p) == IF p > Len(txt) - 1 THEN None ELSE txt[p + 1]

\* Advance, had advance() no self.pos += 1.
Advance_Stay ==
    /\ pos' = pos
    /\ advances' = advances + 1
    /\ current_char' = CharAt(text, pos)

Advance ==
    /\ pos' = pos + 1
    /\ advances' = advances + 1
    /\ current_char' = CharAt(text, pos + 1)

\* LexerInit, were pos shared by the Lexer objects and not set again.
LexerInit_KeepPos ==
    /\ Running("main") /\ Top.at = "Lexer"
    /\ IF Len(Top.text) = 0
       THEN Raise(IndexError)
       ELSE /\ text' = Top.text
            /\ current_char' = Top.text[1]
            /\ stack' = SetTop([Top EXCEPT !.at = "Interpreter"])
            /\ UNCHANGED <<stdin, pos, current_token, exc, history>>
            /\ lexed' = <<>> /\ advances' = 0

\* Lexer(text)
LexerInit ==
    /\ Running("main") /\ Top.at = "Lexer"
    /\ IF Len(Top.text) = 0
       THEN Raise(IndexError)
       ELSE /\ text' = Top.text
            /\ pos' = 0
            /\ current_char' = Top.text[1]
            /\ stack' = SetTop([Top EXCEPT !.at = "Interpreter"])
            /\ UNCHANGED <<stdin, current_token, exc, history>>
            /\ lexed' = <<>> /\ advances' = 0

\* Where a frame goes on once the call it made (Interpreter(lexer) or eat)
\* has returned.
AfterCall(f) ==
    CASE f.fn = "main"   -> [f EXCEPT !.at = "expr"]
      [] f.fn = "client" -> [f EXCEPT !.at = "call"]
      [] f.fn = "factor" -> [f EXCEPT !.at = "return"]
      [] OTHER           -> [f EXCEPT !.at = "operand"]

\* get_next_token, the frame stack[g], returns tok.  Its caller, which is
\* Interpreter.__init__ or eat, stores tok in current_token and returns.
ReturnToken(tok, g) ==
    /\ current_token' = tok
    /\ lexed' = Append(lexed, tok)
    /\ stack' = Append(SubSeq(stack, 1, g - 3), AfterCall(stack[g - 2]))

\* ParseSign, had parse_sign no self.advance().
ParseSign_Peek(type) ==
    /\ ReturnToken(Token(type, current_char), Len(stack))
    /\ UNCHANGED <<stdin, text, pos, current_char, exc, history, advances>>

\* parse_sign, and the Token made of the sign
ParseSign(type) ==
    /\ ReturnToken(Token(type, current_char), Len(stack))
    /\ Advance
    /\ UNCHANGED <<stdin, text, exc, history>>

\* GetNextToken, had get_next_token moved the cursor on when it returns EOF.
GetNextToken_EndAdvances ==
    /\ Running("get_next_token")
    /\ IF current_char = None
       THEN /\ ReturnToken(Token(EOF, None), Len(stack))
            /\ Advance
            /\ UNCHANGED <<stdin, text, exc, history>>
       ELSE IF IsSpace(current_char)
       THEN /\ stack' = Append(stack, [fn |-> "skip_whitespace"])
            /\ UNCHANGED <<stdin, text, pos, current_char, current_token, exc, history, lexed, advances>>
       ELSE IF IsDigit(current_char)
       THEN /\ stack' = Append(stack, [fn |-> "parse_integer", result |-> <<>>])
            /\ UNCHANGED <<stdin, text, pos, current_char, current_token, exc, history, lexed, advances>>
       ELSE IF current_char \in summation_signs
       THEN ParseSign(S_SIGN)
       ELSE IF current_char \in multiplication_signs
       THEN ParseSign(M_SIGN)
       ELSE Raise(InvalidCharacter)

\* One turn of the loop of get_next_token.
GetNextToken ==
    /\ Running("get_next_token")
    /\ IF current_char = None
       THEN /\ ReturnToken(Token(EOF, None), Len(stack))
            /\ UNCHANGED <<stdin, text, pos, current_char, exc, history, advances>>
       ELSE IF IsSpace(current_char)
       THEN /\ stack' = Append(stack, [fn |-> "skip_whitespace"])
            /\ UNCHANGED <<stdin, text, pos, current_char, current_token, exc, history, lexed, advances>>
       ELSE IF IsDigit(current_char)
       THEN /\ stack' = Append(stack, [fn |-> "parse_integer", result |-> <<>>])
            /\ UNCHANGED <<stdin, text, pos, current_char, current_token, exc, history, lexed, advances>>
       ELSE IF current_char \in summation_signs
       THEN ParseSign(S_SIGN)
       ELSE IF current_char \in multiplication_signs
       THEN ParseSign(M_SIGN)
       ELSE Raise(InvalidCharacter)

\* One turn of the loop of skip_whitespace, or its return to the loop of
\* get_next_token.
SkipWhitespace ==
    /\ Running("skip_whitespace")
    /\ IF current_char # None /\ IsSpace(current_char)
       THEN Advance /\ UNCHANGED stack
       ELSE stack' = SubSeq(stack, 1, Len(stack) - 1) /\ UNCHANGED <<pos, current_char, advances>>
    /\ UNCHANGED <<stdin, text, current_token, exc, history, lexed>>

\* ParseInteger, had parse_integer an if for its while: it takes one digit.
ParseInteger_OneDigit ==
    /\ Running("parse_integer")
    /\ IF current_char # None /\ IsDigit(current_char) /\ Top.result = <<>>
       THEN /\ stack' = SetTop([Top EXCEPT !.result = Append(@, current_char)])
            /\ Advance
            /\ UNCHANGED <<current_token, lexed>>
       ELSE /\ ReturnToken(Token(INTEGER, ToInt(Top.result)), Len(stack) - 1)
            /\ UNCHANGED <<pos, current_char, advances>>
    /\ UNCHANGED <<stdin, text, exc, history>>

\* One turn of the loop of parse_integer, or its return: get_next_token
\* returns the INTEGER token.
ParseInteger ==
    /\ Running("parse_integer")
    /\ IF current_char # None /\ IsDigit(current_char)
       THEN /\ stack' = SetTop([Top EXCEPT !.result = Append(@, current_char)])
            /\ Advance
            /\ UNCHANGED <<current_token, lexed>>
       ELSE /\ ReturnToken(Token(INTEGER, ToInt(Top.result)), Len(stack) - 1)
            /\ UNCHANGED <<pos, current_char, advances>>
    /\ UNCHANGED <<stdin, text, exc, history>>

\* ------------------------------------------------------------ Interpreter
\* Interpreter(lexer): asks the lexer for the first token.
InterpreterInit ==
    /\ Running("main") /\ Top.at = "Interpreter"
    /\ stack' = stack \o <<[fn |-> "Interpreter.__init__"], [fn |-> "get_next_token"]>>
    /\ UNCHANGED <<stdin, text, pos, current_char, current_token, exc, history, lexed, advances>>

\* TypeMatches, had eat no test of the type.
TypeMatches_Always(token_type) == TRUE

\* The type, and the value when values are given, of the current token are
\* the expected ones.
TypeMatches(token_type) == current_token.type = token_type

ValueMatches(token_values) ==
    \/ token_values = <<>>
    \/ \E i \in 1..Len(token_values) : current_token.value = token_values[i]

Eat ==
    /\ Running("eat")
    /\ IF TypeMatches(Top.token_type)
       THEN /\ IF ValueMatches(Top.token_values)
               THEN stack' = Append(stack, [fn |-> "get_next_token"])
               ELSE stack' = Return(AfterCall(Caller))
            /\ UNCHANGED <<stdin, text, pos, current_char, current_token, exc, history, lexed, advances>>
       ELSE Raise(InvalidSyntax)

\* result = result * factor, result = result / factor
MulFold(result, sign, value) ==
    IF sign = "*" THEN PyMul(result, value)
    ELSE IF sign = "/" THEN PyTrueDiv(result, value)
    ELSE result

\* SumFold, had line 195 its operands the other way round.
SumFold_Swapped(result, sign, value) ==
    IF sign = "+" THEN PyAdd(result, value)
    ELSE IF sign = "-" THEN PySub(value, result)
    ELSE result

\* result = result + m_expr, result = result - m_expr
SumFold(result, sign, value) ==
    IF sign = "+" THEN PyAdd(result, value)
    ELSE IF sign = "-" THEN PySub(result, value)
    ELSE result

\* DividesByZero, were a division by zero to give a float (inf, nan).
DividesByZero_Never(f, value) == FALSE

\* The division of line 169 has a zero divisor.
DividesByZero(f, value) ==
    f.fn = "m_expr" /\ f.at = "operand" /\ f.token.value = "/" /\ value.num = 0

\* The frame f once the call it made has returned value: the first operand
\* becomes the result, a later one is folded into it.
Receive(f, value) ==
    CASE f.fn = "main"      -> [f EXCEPT !.result = value, !.at = "print"]
      [] f.at = "first"     -> [f EXCEPT !.result = value, !.at = "loop"]
      [] f.fn = "m_expr"    -> [f EXCEPT !.result = MulFold(@, f.token.value, value),
                                         !.at = "loop"]
      [] OTHER              -> [f EXCEPT !.result = SumFold(@, f.token.value, value),
                                         !.at = "loop"]

\* The top frame returns value to its caller.
ReturnValue(value) ==
    IF DividesByZero(Caller, value)
    THEN Raise(ZeroDivisionError)
    ELSE /\ stack' = Return(Receive(Caller, value))
         /\ UNCHANGED <<stdin, text, pos, current_char, current_token, exc, history, lexed, advances>>

Call(f) ==
    /\ stack' = Append(stack, f)
    /\ UNCHANGED <<stdin, text, pos, current_char, current_token, exc, history, lexed, advances>>

\* factor: token = self.current_token; self.eat(INTEGER)
Factor ==
    /\ Running("factor") /\ Top.at = "eat"
    /\ stack' = Append(SetTop([Top EXCEPT !.token = current_token]), EatFrame(INTEGER, <<>>))
    /\ UNCHANGED <<stdin, text, pos, current_char, current_token, exc, history, lexed, advances>>

\* factor: return token.value
FactorReturn ==
    /\ Running("factor") /\ Top.at = "return"
    /\ ReturnValue(PyInt(Top.token.value))

\* m_expr: result = self.factor()
MExprFirst ==
    /\ Running("m_expr") /\ Top.at = "first"
    /\ Call(FactorFrame)

\* MExprLoop, had the loop of m_expr gone on for the sign * only.
MExprLoop_StarOnly ==
    /\ Running("m_expr") /\ Top.at = "loop"
    /\ IF current_token.type = M_SIGN /\ current_token.value = "*"
       THEN /\ stack' = Append(SetTop([Top EXCEPT !.token = current_token, !.at = "eat"]),
                               EatFrame(M_SIGN, <<>>))
            /\ UNCHANGED <<stdin, text, pos, current_char, current_token, exc, history, lexed, advances>>
       ELSE ReturnValue(Top.result)

\* m_expr: the test of the while loop; token = self.current_token and
\* self.eat(M_SIGN), or return result
MExprLoop ==
    /\ Running("m_expr") /\ Top.at = "loop"
    /\ IF current_token.type = M_SIGN
       THEN /\ stack' = Append(SetTop([Top EXCEPT !.token = current_token, !.at = "eat"]),
                               EatFrame(M_SIGN, <<>>))
            /\ UNCHANGED <<stdin, text, pos, current_char, current_token, exc, history, lexed, advances>>
       ELSE ReturnValue(Top.result)

\* m_expr: the call of self.factor() on the right of * or /
MExprOperand ==
    /\ Running("m_expr") /\ Top.at = "operand"
    /\ Call(FactorFrame)

\* expr: result = self.m_expr()
ExprFirst ==
    /\ Running("expr") /\ Top.at = "first"
    /\ Call(MExprFrame)

\* expr: the test of the while loop; token = self.current_token and
\* self.eat(S_SIGN), or return result
ExprLoop ==
    /\ Running("expr") /\ Top.at = "loop"
    /\ IF current_token.type = S_SIGN
       THEN /\ stack' = Append(SetTop([Top EXCEPT !.token = current_token, !.at = "eat"]),
                               EatFrame(S_SIGN, <<>>))
            /\ UNCHANGED <<stdin, text, pos, current_char, current_token, exc, history, lexed, advances>>
       ELSE ReturnValue(Top.result)

\* ExprOperand, had expr the grammar of the module's docstring,
\* expr: m_expr ((+|-) factor)*
ExprOperand_Factor ==
    /\ Running("expr") /\ Top.at = "operand"
    /\ Call(FactorFrame)

\* expr: the call of self.m_expr() on the right of + or -
ExprOperand ==
    /\ Running("expr") /\ Top.at = "operand"
    /\ Call(MExprFrame)

\* ------------------------------------------------------------------- main
\* IsEmptyLine, had main no test of the line it read.
IsEmptyLine_Never(line) == FALSE

\* if not text
IsEmptyLine(line) == Len(line) = 0

\* text = input('calc> ') gets the next line of the standard input; an empty
\* line makes main prompt again.
ReadLine ==
    /\ Running("main") /\ Top.at = "input"
    /\ stdin # <<>>
    /\ stdin' = Tail(stdin)
    /\ stack' = SetTop([Top EXCEPT !.text = Head(stdin),
                                   !.at = IF IsEmptyLine(Head(stdin)) THEN "input" ELSE "Lexer"])
    /\ UNCHANGED <<text, pos, current_char, current_token, exc, history, lexed, advances>>

\* input raises EOFError: main leaves its loop and the process ends.
ReadEOF ==
    /\ Running("main") /\ Top.at = "input"
    /\ stdin = <<>>
    /\ stack' = <<>>
    /\ UNCHANGED <<stdin, text, pos, current_char, current_token, exc, history, lexed, advances>>

\* result = interpreter.expr()
CallExpr ==
    /\ Running("main") /\ Top.at = "expr"
    /\ Call(ExprFrame)

\* print(result)
PrintResult ==
    /\ Running("main") /\ Top.at = "print"
    /\ history' = Append(history, Outcome(text, NoExc, Top.result))
    /\ stack' = SetTop([Top EXCEPT !.at = "input"])
    /\ UNCHANGED <<stdin, text, pos, current_char, current_token, exc, lexed, advances>>

\* The program is started again on what is left of the standard input.
Launch ==
    /\ stack = <<>> /\ stdin # <<>>
    /\ stack' = <<MainFrame>>
    /\ text' = <<>> /\ pos' = 0 /\ current_char' = None /\ current_token' = NoToken
    /\ lexed' = <<>> /\ advances' = 0
    /\ exc' = NoExc
    /\ UNCHANGED <<stdin, history>>

\* ---------------------------------------------------------- specifications
\* The sessions of one line, which may be empty, or of none.
OneLine(chars, n) == {<<t>> : t \in Texts(chars, n) \cup {<<>>}} \cup {<<>>}

Start(sessions) ==
    /\ stack = <<MainFrame>>
    /\ stdin \in sessions
    /\ text = <<>> /\ pos = 0 /\ current_char = None /\ current_token = NoToken
    /\ exc = NoExc
    /\ history = <<>>
    /\ lexed = <<>> /\ advances = 0

Init == Start(OneLine(Chars, MaxLen))

Next ==
    \/ ReadLine \/ ReadEOF \/ LexerInit \/ InterpreterInit \/ CallExpr \/ PrintResult
    \/ GetNextToken \/ SkipWhitespace \/ ParseInteger
    \/ Eat \/ Factor \/ FactorReturn
    \/ MExprFirst \/ MExprLoop \/ MExprOperand
    \/ ExprFirst \/ ExprLoop \/ ExprOperand

Spec == Init /\ [][Next]_vars

\* The interpreter runs: a statement that can be executed is executed.
SpecLive == Init /\ [][Next]_vars /\ WF_vars(Next)

InitArith == Start(OneLine(ArithChars, ArithMaxLen))

SpecArith == InitArith /\ [][Next]_vars

\* A session of several lines, each of them one line typed with blanks put
\* in or left out: a, then b, then a again.
Blank == " "

RECURSIVE Blanks(_)
Blanks(j) == IF j = 0 THEN <<>> ELSE <<Blank>> \o Blanks(j - 1)

\* The lines of at most n characters that are s with blanks put in.
RECURSIVE Pad(_, _)
Pad(s, n) ==
    IF n < Len(s) THEN {}
    ELSE IF s = <<>> THEN {Blanks(j) : j \in 0..n}
    ELSE UNION {{Blanks(j) \o <<s[1]>> \o r : r \in Pad(Tail(s), n - j - 1)} :
                j \in 0..(n - Len(s))}

\* The lines of at most n characters without a blank, the empty one too.
Dense(chars, n) == UNION {[1..k -> chars \ {Blank}] : k \in 0..n}

InitSession ==
    \E s \in Dense(SessionChars, SessionMaxLen) :
        \E a, b \in Pad(s, SessionMaxLen) : Start({<<a, b, a>>})

NextSession == Next \/ Launch

SpecSession == InitSession /\ [][NextSession]_vars

\* A client of the Lexer alone.  It constructs a Lexer on a text and then,
\* time after time, an Interpreter on that Lexer; Interpreter(lexer) calls
\* lexer.get_next_token() once and keeps the token as its current token.
ClientFrame(t) == [fn |-> "client", at |-> "Lexer", text |-> t, calls |-> 0]

\* Lexer(text), the text not empty
ClientLexer ==
    /\ Running("client") /\ Top.at = "Lexer"
    /\ text' = Top.text
    /\ pos' = 0
    /\ current_char' = Top.text[1]
    /\ lexed' = <<>> /\ advances' = 0
    /\ stack' = SetTop([Top EXCEPT !.at = "call"])
    /\ UNCHANGED <<stdin, current_token, exc, history>>

\* Interpreter(lexer)
ClientCall ==
    /\ Running("client") /\ Top.at = "call"
    /\ Top.calls < MaxCalls
    /\ stack' = SetTop([Top EXCEPT !.calls = @ + 1, !.at = "Interpreter"])
                    \o <<[fn |-> "Interpreter.__init__"], [fn |-> "get_next_token"]>>
    /\ UNCHANGED <<stdin, text, pos, current_char, current_token, exc, history, lexed, advances>>

InitLexer ==
    /\ \E t \in Texts(Chars, LexMaxLen) : stack = <<ClientFrame(t)>>
    /\ stdin = <<>>
    /\ text = <<>> /\ pos = 0 /\ current_char = None /\ current_token = NoToken
    /\ exc = NoExc
    /\ history = <<>>
    /\ lexed = <<>> /\ advances = 0

NextLexer ==
    \/ ClientLexer \/ ClientCall
    \/ GetNextToken \/ SkipWhitespace \/ ParseInteger

SpecLexer == InitLexer /\ [][NextLexer]_vars

\* ================================================================= calc3
\* The calculator of 3-extended-calculator-multiplication/calc3.py.  Its
\* Interpreter is lexer and parser in one object: text, pos, current_char
\* and current_token are its fields.  A caller sets its own `at` to the
\* place it goes on from before it makes a call, so that a return is the
\* removal of the top frame.  advance(), and the arithmetic of Python, are
\* those of calc4.
Calc3Chars == {"0", "2", " ", "-", "/"}

SIGN == "SIGN"

operation_signs == {"+", "-", "*", "/"}

\* Interpreter.error
Calc3Error == [type |-> "Exception", msg |-> "Error parsing input", args |-> <<>>]

UnexpectedSign ==
    [type |-> "Exception", msg |-> "Unexpected operation sign", args |-> <<>>]

\* The local `result` of compute_ISI is read before it was bound.
UnboundLocalError ==
    [type |-> "UnboundLocalError", msg |-> "result", args |-> <<>>]

Calc3MainFrame == [fn |-> "main", at |-> "input", text |-> <<>>, result |-> NoResult]

Calc3ExprFrame ==
    [fn |-> "expr", at |-> "parse_ISI", term |-> NoResult, allowed_signs |-> <<>>,
     op |-> NoToken, right |-> NoToken]

ParseISIFrame ==
    [fn |-> "parse_ISI", at |-> "get_next_token", left |-> NoToken, op |-> NoToken,
     right |-> NoToken]

Pop == SubSeq(stack, 1, Len(stack) - 1)

\* The top frame, gone on to the place `at`, calls f.
Calc3Call(top, f) ==
    /\ stack' = Append(SetTop(top), f)
    /\ UNCHANGED <<stdin, text, pos, current_char, current_token, exc, history, lexed, advances>>

\* text = input('calc> '), and if not text: continue
Calc3ReadLine ==
    /\ Running("main") /\ Top.at = "input"
    /\ stdin # <<>>
    /\ stdin' = Tail(stdin)
    /\ stack' = SetTop([Top EXCEPT !.text = Head(stdin),
                                   !.at = IF Len(Head(stdin)) = 0 THEN "input"
                                          ELSE "Interpreter"])
    /\ UNCHANGED <<text, pos, current_char, current_token, exc, history, lexed, advances>>

\* input raises EOFError: break
Calc3ReadEOF ==
    /\ Running("main") /\ Top.at = "input"
    /\ stdin = <<>>
    /\ stack' = <<>>
    /\ UNCHANGED <<stdin, text, pos, current_char, current_token, exc, history, lexed, advances>>

\* interpreter = Interpreter(text)
Calc3InterpreterInit ==
    /\ Running("main") /\ Top.at = "Interpreter"
    /\ IF Len(Top.text) = 0
       THEN Raise(IndexError)
       ELSE /\ text' = Top.text
            /\ pos' = 0
            /\ current_token' = NoToken
            /\ current_char' = Top.text[1]
            /\ lexed' = <<>> /\ advances' = 0
            /\ stack' = SetTop([Top EXCEPT !.at = "expr"])
            /\ UNCHANGED <<stdin, exc, history>>

\* result = interpreter.expr()
Calc3CallExpr ==
    /\ Running("main") /\ Top.at = "expr"
    /\ Calc3Call([Top EXCEPT !.at = "print"], Calc3ExprFrame)

\* print(result)
Calc3PrintResult ==
    /\ Running("main") /\ Top.at = "print"
    /\ history' = Append(history, Outcome(text, NoExc, Top.result))
    /\ stack' = SetTop([Top EXCEPT !.at = "input"])
    /\ UNCHANGED <<stdin, text, pos, current_char, current_token, exc, lexed, advances>>

\* get_next_token, the frame stack[g], returns tok to the assignment
\* self.current_token = self.get_next_token() of its caller: of parse_ISI,
\* which goes on, or of eat, which returns.
Calc3ReturnToken(tok, g) ==
    /\ current_token' = tok
    /\ lexed' = Append(lexed, tok)
    /\ stack' = SubSeq(stack, 1, IF stack[g - 1].fn = "eat" THEN g - 2 ELSE g - 1)

\* One turn of the loop of get_next_token.
Calc3GetNextToken ==
    /\ Running("get_next_token")
    /\ IF current_char = None
       THEN /\ Calc3ReturnToken(Token(EOF, None), Len(stack))
            /\ UNCHANGED <<stdin, text, pos, current_char, exc, history, advances>>
       ELSE IF IsSpace(current_char)
       THEN /\ stack' = Append(stack, [fn |-> "skip_whitespace"])
            /\ UNCHANGED <<stdin, text, pos, current_char, current_token, exc, history, lexed, advances>>
       ELSE IF IsDigit(current_char)
       THEN /\ stack' = Append(stack, [fn |-> "parse_integer", number |-> <<>>])
            /\ UNCHANGED <<stdin, text, pos, current_char, current_token, exc, history, lexed, advances>>
       ELSE IF current_char \in operation_signs
       THEN /\ Calc3ReturnToken(Token(SIGN, current_char), Len(stack))
            /\ Advance
            /\ UNCHANGED <<stdin, text, exc, history>>
       ELSE Raise(Calc3Error)

\* One turn of the loop of skip_whitespace, or its return.
Calc3SkipWhitespace ==
    /\ Running("skip_whitespace")
    /\ IF current_char # None /\ IsSpace(current_char)
       THEN Advance /\ UNCHANGED stack
       ELSE stack' = Pop /\ UNCHANGED <<pos, current_char, advances>>
    /\ UNCHANGED <<stdin, text, current_token, exc, history, lexed>>

\* One turn of the loop of parse_integer, or its return: get_next_token
\* returns the INTEGER token.
Calc3ParseInteger ==
    /\ Running("parse_integer")
    /\ IF current_char # None /\ IsDigit(current_char)
       THEN /\ stack' = SetTop([Top EXCEPT !.number = Append(@, current_char)])
            /\ Advance
            /\ UNCHANGED <<current_token, lexed>>
       ELSE /\ Calc3ReturnToken(Token(INTEGER, ToInt(Top.number)), Len(stack) - 1)
            /\ UNCHANGED <<pos, current_char, advances>>
    /\ UNCHANGED <<stdin, text, exc, history>>

\* not token_values or (self.current_token.value in token_values)
Calc3ValueMatches(token_values) ==
    \/ token_values = <<>>
    \/ \E i \in 1..Len(token_values) : current_token.value = token_values[i]

\* eat: a token of the expected type and of one of the expected values is
\* replaced by the next one; a token of the expected type and of another
\* value is left where it is and eat returns; a token of another type is an
\* error.
Calc3Eat ==
    /\ Running("eat")
    /\ IF current_token.type = Top.token_type
       THEN /\ IF Calc3ValueMatches(Top.token_values)
               THEN stack' = Append(stack, [fn |-> "get_next_token"])
               ELSE stack' = Pop
            /\ UNCHANGED <<stdin, text, pos, current_char, current_token, exc, history, lexed, advances>>
       ELSE Raise(Calc3Error)

\* compute_ISI, had its subtraction the operands the other way round.
compute_ISI_Swapped(left, op, right) ==
    IF op.value = "+" THEN PyAdd(left, PyInt(right.value))
    ELSE IF op.value = "-" THEN PySub(PyInt(right.value), left)
    ELSE IF op.value = "*" THEN PyMul(left, PyInt(right.value))
    ELSE PyTrueDiv(left, PyInt(right.value))

\* compute_ISI for a left value that is a number of Python and a right token
\* that is an INTEGER, the divisor not zero.
compute_ISI(left, op, right) ==
    IF op.value = "+" THEN PyAdd(left, PyInt(right.value))
    ELSE IF op.value = "-" THEN PySub(left, PyInt(right.value))
    ELSE IF op.value = "*" THEN PyMul(left, PyInt(right.value))
    ELSE PyTrueDiv(left, PyInt(right.value))

\* What compute_ISI raises, if anything: no branch binds result, or the
\* division is by zero.
ComputeRaises(op, right) ==
    IF op.value \notin operation_signs THEN UnboundLocalError
    ELSE IF op.value = "/" /\ right.value = 0 THEN ZeroDivisionError
    ELSE NoExc

\* parse_ISI: self.current_token = self.get_next_token()
ParseISIFirst ==
    /\ Running("parse_ISI") /\ Top.at = "get_next_token"
    /\ Calc3Call([Top EXCEPT !.at = "left"], [fn |-> "get_next_token"])

\* left = self.current_token; self.eat(INTEGER)
ParseISILeft ==
    /\ Running("parse_ISI") /\ Top.at = "left"
    /\ Calc3Call([Top EXCEPT !.left = current_token, !.at = "op"], EatFrame(INTEGER, <<>>))

\* op = self.current_token; self.eat(SIGN)
ParseISIOp ==
    /\ Running("parse_ISI") /\ Top.at = "op"
    /\ Calc3Call([Top EXCEPT !.op = current_token, !.at = "right"], EatFrame(SIGN, <<>>))

\* right = self.current_token; self.eat(INTEGER)
ParseISIRight ==
    /\ Running("parse_ISI") /\ Top.at = "right"
    /\ Calc3Call([Top EXCEPT !.right = current_token, !.at = "log"], EatFrame(INTEGER, <<>>))

\* The rest of parse_ISI and what expr does with what it returns: log,
\* compute_ISI(left, op, right), term = Token(INTEGER, result) and the
\* choice of allowed_signs.
ParseISIReturn ==
    /\ Running("parse_ISI") /\ Top.at = "log"
    /\ LET log == IF Top.op.value \in {"+", "-"} THEN "+"
                  ELSE IF Top.op.value \in {"*", "/"} THEN "*"
                  ELSE None
       IN  IF log = None THEN Raise(UnexpectedSign)
           ELSE IF ComputeRaises(Top.op, Top.right) # NoExc
           THEN Raise(ComputeRaises(Top.op, Top.right))
           ELSE /\ stack' = Return([Caller EXCEPT
                       !.term = compute_ISI(PyInt(Top.left.value), Top.op, Top.right),
                       !.allowed_signs = IF log = "+" THEN <<"+", "-">> ELSE <<"*", "/">>,
                       !.at = "loop"])
                /\ UNCHANGED <<stdin, text, pos, current_char, current_token, exc, history, lexed, advances>>

\* expr: result, op_type = self.parse_ISI()
Calc3ExprFirst ==
    /\ Running("expr") /\ Top.at = "parse_ISI"
    /\ Calc3Call([Top EXCEPT !.at = "allowed"], ParseISIFrame)

\* The test of the while loop of expr: return term.value, or
\* op = self.current_token and self.eat(SIGN, allowed_signs)
Calc3ExprLoop ==
    /\ Running("expr") /\ Top.at = "loop"
    /\ IF current_token.type = EOF
       THEN /\ stack' = Return([Caller EXCEPT !.result = Top.term])
            /\ UNCHANGED <<stdin, text, pos, current_char, current_token, exc, history, lexed, advances>>
       ELSE Calc3Call([Top EXCEPT !.op = current_token, !.at = "right"],
                      EatFrame(SIGN, Top.allowed_signs))

\* right = self.current_token; self.eat(INTEGER)
Calc3ExprRight ==
    /\ Running("expr") /\ Top.at = "right"
    /\ Calc3Call([Top EXCEPT !.right = current_token, !.at = "compute"],
                 EatFrame(INTEGER, <<>>))

\* term = Token(INTEGER, self.compute_ISI(term, op, right))
Calc3ExprCompute ==
    /\ Running("expr") /\ Top.at = "compute"
    /\ IF ComputeRaises(Top.op, Top.right) # NoExc
       THEN Raise(ComputeRaises(Top.op, Top.right))
       ELSE /\ stack' = SetTop([Top EXCEPT !.term = compute_ISI(@, Top.op, Top.right),
                                           !.at = "loop"])
            /\ UNCHANGED <<stdin, text, pos, current_char, current_token, exc, history, lexed, advances>>

\* Longest line given to calc3.
Calc3MaxLen == 5

InitCalc3 ==
    /\ stack = <<Calc3MainFrame>>
    /\ stdin \in OneLine(Calc3Chars, Calc3MaxLen)
    /\ text = <<>> /\ pos = 0 /\ current_char = None /\ current_token = NoToken
    /\ exc = NoExc
    /\ history = <<>>
    /\ lexed = <<>> /\ advances = 0

NextCalc3 ==
    \/ Calc3ReadLine \/ Calc3ReadEOF \/ Calc3InterpreterInit \/ Calc3CallExpr
    \/ Calc3PrintResult
    \/ Calc3GetNextToken \/ Calc3SkipWhitespace \/ Calc3ParseInteger \/ Calc3Eat
    \/ ParseISIFirst \/ ParseISILeft \/ ParseISIOp \/ ParseISIRight \/ ParseISIReturn
    \/ Calc3ExprFirst \/ Calc3ExprLoop \/ Calc3ExprRight \/ Calc3ExprCompute

\* The interpreter runs: a statement that can be executed is executed.
SpecCalc3 == InitCalc3 /\ [][NextCalc3]_vars /\ WF_vars(NextCalc3)

\* ================================================================= calc1
\* The calculator of 1-calculator/calc1.py.  Its Interpreter is lexer and
\* parser in one object.  pos starts at -1 and stands on the last character
\* of the token that was returned; get_next_token moves it on by one before
\* it looks at the text.  Frames are called and returned as in calc3.
Calc1Chars == {"0", "2", " ", "-", "/"}

\* Longest line given to calc1.
Calc1MaxLen == 4

\* Interpreter.error
Calc1Error == [type |-> "Exception", msg |-> "Error parsing input", args |-> <<>>]

Calc1MainFrame == [fn |-> "main", at |-> "input", text |-> <<>>, result |-> NoResult]

Calc1ExprFrame ==
    [fn |-> "expr", at |-> "get_next_token", left |-> NoToken, op |-> NoToken,
     right |-> NoToken]

Calc1TokenFrame == [fn |-> "get_next_token", at |-> "enter"]

LookForNumberFrame ==
    [fn |-> "look_for_number", at |-> "first", number_token |-> <<>>, next_char |-> None]

\* The exception e is raised, nothing catches it, and the Interpreter is
\* left with its cursor at p and the character c.
Calc1Raise(e, p, c) ==
    /\ stack' = <<>>
    /\ exc' = e
    /\ history' = Append(history, Outcome(text, e, NoResult))
    /\ pos' = p
    /\ current_char' = c
    /\ UNCHANGED <<stdin, text, current_token, lexed, advances>>

\* text = input('calc> '), and if not text: continue
Calc1ReadLine ==
    /\ Running("main") /\ Top.at = "input"
    /\ stdin # <<>>
    /\ stdin' = Tail(stdin)
    /\ stack' = SetTop([Top EXCEPT !.text = Head(stdin),
                                   !.at = IF Len(Head(stdin)) = 0 THEN "input"
                                          ELSE "Interpreter"])
    /\ UNCHANGED <<text, pos, current_char, current_token, exc, history, lexed, advances>>

\* input raises EOFError: break
Calc1ReadEOF ==
    /\ Running("main") /\ Top.at = "input"
    /\ stdin = <<>>
    /\ stack' = <<>>
    /\ UNCHANGED <<stdin, text, pos, current_char, current_token, exc, history, lexed, advances>>

\* interpreter = Interpreter(text)
Calc1InterpreterInit ==
    /\ Running("main") /\ Top.at = "Interpreter"
    /\ text' = Top.text
    /\ pos' = -1
    /\ current_token' = NoToken
    /\ current_char' = None
    /\ lexed' = <<>> /\ advances' = 0
    /\ stack' = SetTop([Top EXCEPT !.at = "expr"])
    /\ UNCHANGED <<stdin, exc, history>>

\* result = interpreter.expr()
Calc1CallExpr ==
    /\ Running("main") /\ Top.at = "expr"
    /\ Calc3Call([Top EXCEPT !.at = "print"], Calc1ExprFrame)

\* print(result)
Calc1PrintResult ==
    /\ Running("main") /\ Top.at = "print"
    /\ history' = Append(history, Outcome(text, NoExc, Top.result))
    /\ stack' = SetTop([Top EXCEPT !.at = "input"])
    /\ UNCHANGED <<stdin, text, pos, current_char, current_token, exc, lexed, advances>>

\* expr: self.current_token = self.get_next_token()
Calc1ExprFirst ==
    /\ Running("expr") /\ Top.at = "get_next_token"
    /\ Calc3Call([Top EXCEPT !.at = "left"], Calc1TokenFrame)

\* left = self.current_token; self.eat(INTEGER)
Calc1ExprLeft ==
    /\ Running("expr") /\ Top.at = "left"
    /\ Calc3Call([Top EXCEPT !.left = current_token, !.at = "op"], [fn |-> "eat", token_type |-> INTEGER])

\* op = self.current_token; self.eat(SIGN)
Calc1ExprOp ==
    /\ Running("expr") /\ Top.at = "op"
    /\ Calc3Call([Top EXCEPT !.op = current_token, !.at = "right"], [fn |-> "eat", token_type |-> SIGN])

\* right = self.current_token; self.eat(INTEGER)
Calc1ExprRight ==
    /\ Running("expr") /\ Top.at = "right"
    /\ Calc3Call([Top EXCEPT !.right = current_token, !.at = "compute"], [fn |-> "eat", token_type |-> INTEGER])

\* The interpretation: the operation of op on the values of left and right,
\* returned to main.
Calc1ExprCompute ==
    /\ Running("expr") /\ Top.at = "compute"
    /\ IF ComputeRaises(Top.op, Top.right) # NoExc
       THEN Raise(ComputeRaises(Top.op, Top.right))
       ELSE /\ stack' = Return([Caller EXCEPT
                       !.result = compute_ISI(PyInt(Top.left.value), Top.op, Top.right)])
            /\ UNCHANGED <<stdin, text, pos, current_char, current_token, exc, history, lexed, advances>>

\* eat
Calc1Eat ==
    /\ Running("eat")
    /\ IF current_token.type = Top.token_type
       THEN Calc3Call(Top, Calc1TokenFrame)
       ELSE Raise(Calc1Error)

\* text[p] of Python for p >= 0: the character, or IndexError.
InText(p) == p <= Len(text) - 1

\* get_next_token up to its loop: self.pos += 1, and EOF past the end.
Calc1GetNextToken ==
    /\ Running("get_next_token") /\ Top.at = "enter"
    /\ pos' = pos + 1
    /\ IF pos + 1 > Len(text) - 1
       THEN /\ Calc3ReturnToken(Token(EOF, None), Len(stack))
            /\ UNCHANGED current_char
       ELSE /\ current_char' = text[pos + 2]
            /\ stack' = SetTop([Top EXCEPT !.at = "loop"])
            /\ UNCHANGED <<current_token, lexed>>
    /\ UNCHANGED <<stdin, text, exc, history, advances>>

\* One turn of the loop of get_next_token on a blank, which reads the next
\* character whether there is one or not; on another character, the call of
\* look_for_number.
Calc1GetNextTokenLoop ==
    /\ Running("get_next_token") /\ Top.at = "loop"
    /\ IF current_char = " "
       THEN IF InText(pos + 1)
            THEN /\ pos' = pos + 1
                 /\ current_char' = text[pos + 2]
                 /\ UNCHANGED <<stack, stdin, text, current_token, exc, history, lexed, advances>>
            ELSE Calc1Raise(IndexError, pos + 1, current_char)
       ELSE Calc3Call([Top EXCEPT !.at = "token_value"], LookForNumberFrame)

\* look_for_number up to its loop: the first digit, and the character after
\* it if the cursor is before the last character.
LookForNumber ==
    /\ Running("look_for_number") /\ Top.at = "first"
    /\ stack' = SetTop(
           IF ~IsDigit(current_char) THEN [Top EXCEPT !.at = "return"]
           ELSE IF pos < Len(text) - 1
           THEN [Top EXCEPT !.number_token = <<current_char>>,
                            !.next_char = text[pos + 2], !.at = "while"]
           ELSE [Top EXCEPT !.number_token = <<current_char>>, !.at = "return"])
    /\ UNCHANGED <<stdin, text, pos, current_char, current_token, exc, history, lexed, advances>>

\* One turn of the loop of look_for_number: the next digit is taken and the
\* character after it is read, whether there is one or not.
LookForNumberLoop ==
    /\ Running("look_for_number") /\ Top.at = "while"
    /\ IF IsDigit(Top.next_char)
       THEN IF InText(pos + 2)
            THEN /\ stack' = SetTop([Top EXCEPT !.number_token = Append(@, Top.next_char),
                                                !.next_char = text[pos + 3]])
                 /\ pos' = pos + 1
                 /\ current_char' = Top.next_char
                 /\ UNCHANGED <<stdin, text, current_token, exc, history, lexed, advances>>
            ELSE Calc1Raise(IndexError, pos + 1, Top.next_char)
       ELSE /\ stack' = SetTop([Top EXCEPT !.at = "return"])
            /\ UNCHANGED <<stdin, text, pos, current_char, current_token, exc, history, lexed, advances>>

\* look_for_operation
look_for_operation(c) == IF c \in operation_signs THEN c ELSE None

\* look_for_number returns, and get_next_token with it: the INTEGER of the
\* number found, or the SIGN look_for_operation finds, or the error.
LookForNumberReturn ==
    /\ Running("look_for_number") /\ Top.at = "return"
    /\ IF Top.number_token # <<>>
       THEN /\ Calc3ReturnToken(Token(INTEGER, ToInt(Top.number_token)), Len(stack) - 1)
            /\ UNCHANGED <<stdin, text, pos, current_char, exc, history, advances>>
       ELSE IF look_for_operation(current_char) # None
       THEN /\ Calc3ReturnToken(Token(SIGN, look_for_operation(current_char)), Len(stack) - 1)
            /\ UNCHANGED <<stdin, text, pos, current_char, exc, history, advances>>
       ELSE Raise(Calc1Error)

InitCalc1 ==
    /\ stack = <<Calc1MainFrame>>
    /\ stdin \in OneLine(Calc1Chars, Calc1MaxLen)
    /\ text = <<>> /\ pos = 0 /\ current_char = None /\ current_token = NoToken
    /\ exc = NoExc
    /\ history = <<>>
    /\ lexed = <<>> /\ advances = 0

NextCalc1 ==
    \/ Calc1ReadLine \/ Calc1ReadEOF \/ Calc1InterpreterInit \/ Calc1CallExpr
    \/ Calc1PrintResult
    \/ Calc1ExprFirst \/ Calc1ExprLeft \/ Calc1ExprOp \/ Calc1ExprRight \/ Calc1ExprCompute
    \/ Calc1Eat \/ Calc1GetNextToken \/ Calc1GetNextTokenLoop
    \/ LookForNumber \/ LookForNumberLoop \/ LookForNumberReturn

SpecCalc1 == InitCalc1 /\ [][NextCalc1]_vars

\* ------------------------------------------------ the grammar, by the book
\* The tokens of a line, read off the line as a whole: blanks separate, a
\* maximal run of digits is one INTEGER, a character that begins no token
\* ends the sequence as an ERROR token, the end of the line as EOF.
DigitChars == <<"0", "1", "2", "3", "4", "5", "6", "7", "8", "9">>

IsDecimal(c) == \E d \in 1..10 : DigitChars[d] = c

Decimal(c) == (CHOOSE d \in 1..10 : DigitChars[d] = c) - 1

RECURSIVE RunEnd(_, _)
RunEnd(t, i) == IF i < Len(t) /\ IsDecimal(t[i + 1]) THEN RunEnd(t, i + 1) ELSE i

RECURSIVE Pow10(_)
Pow10(k) == IF k = 0 THEN 1 ELSE 10 * Pow10(k - 1)

\* The number the digits t[i..j] are the decimal notation of.
RECURSIVE Denoted(_, _, _)
Denoted(t, i, j) == IF i > j THEN 0
                    ELSE Decimal(t[i]) * Pow10(j - i) + Denoted(t, i + 1, j)

RECURSIVE Tokens(_, _)
Tokens(t, i) ==
    IF i > Len(t) THEN <<Token(EOF, None)>>
    ELSE IF t[i] = Blank THEN Tokens(t, i + 1)
    ELSE IF IsDecimal(t[i])
    THEN <<Token(INTEGER, Denoted(t, i, RunEnd(t, i)))>> \o Tokens(t, RunEnd(t, i) + 1)
    ELSE IF t[i] \in {"+", "-"} THEN <<Token(S_SIGN, t[i])>> \o Tokens(t, i + 1)
    ELSE IF t[i] \in {"*", "/"} THEN <<Token(M_SIGN, t[i])>> \o Tokens(t, i + 1)
    ELSE <<Token("ERROR", t[i])>>

Tokenize(t) == Tokens(t, 1)

SameToken(a, b) == a.type = b.type /\ a.value = b.value

SameTokens(a, b) == Len(a) = Len(b) /\ \A k \in 1..Len(a) : SameToken(a[k], b[k])

IsSign(tok) == tok.type \in {S_SIGN, M_SIGN}

\* toks[1..k] is INTEGER (sign INTEGER)*
Chain(toks, k) ==
    /\ k % 2 = 1 /\ k <= Len(toks)
    /\ \A i \in 1..k : IF i % 2 = 1 THEN toks[i].type = INTEGER ELSE IsSign(toks[i])

\* The line is a sentence of the grammar: a chain, then the end.
Grammatical(toks) ==
    /\ Len(toks) % 2 = 0
    /\ Chain(toks, Len(toks) - 1)
    /\ toks[Len(toks)].type = EOF

\* Some / has the integer 0 on its right.
ZeroDivisor(toks) ==
    \E k \in 1..(Len(toks) - 1) :
        /\ toks[k].type = M_SIGN /\ toks[k].value = "/"
        /\ toks[k + 1].type = INTEGER /\ toks[k + 1].value = 0

Apply(sign, a, b) ==
    CASE sign = "+" -> PyAdd(a, b)
      [] sign = "-" -> PySub(a, b)
      [] sign = "*" -> PyMul(a, b)
      [] sign = "/" -> PyTrueDiv(a, b)

\* The value of the chain toks[i..j] of * and / only: the last sign applies
\* to everything on its left and the integer on its right.
RECURSIVE TermValue(_, _, _)
TermValue(toks, i, j) ==
    IF i = j THEN PyInt(toks[i].value)
    ELSE Apply(toks[j - 1].value, TermValue(toks, i, j - 2), PyInt(toks[j].value))

\* The value of the chain toks[i..j]: the last + or - splits it into the
\* expression on its left and the term on its right.
RECURSIVE ExprValue(_, _, _)
ExprValue(toks, i, j) ==
    LET sums == {k \in i..j : toks[k].type = S_SIGN}
        last == CHOOSE k \in sums : \A m \in sums : m <= k
    IN  IF sums = {} THEN TermValue(toks, i, j)
        ELSE Apply(toks[last].value, ExprValue(toks, i, last - 1),
                   TermValue(toks, last + 1, j))

\* The running sum and difference of a chain of + and - only, from the left.
RECURSIVE RunningSum(_, _, _)
RunningSum(toks, k, acc) ==
    IF toks[k].type = EOF THEN acc
    ELSE RunningSum(toks, k + 2, IF toks[k].value = "+" THEN acc + toks[k + 1].value
                                 ELSE acc - toks[k + 1].value)

Additive(toks) ==
    Grammatical(toks) /\ \A k \in 1..Len(toks) : toks[k].type # M_SIGN

\* The evaluations that have ended, and the one of a line.
Ended == {history[i] : i \in 1..Len(history)}

EndedOn(line) == {h \in Ended : h.text = line}

Returned(h, value) == h.exc = NoExc /\ h.printed = value

C2_LeftAssociative ==
    \A h \in Ended :
        LET toks == Tokenize(h.text)
        IN  Additive(toks) => Returned(h, PyInt(RunningSum(toks, 2, toks[1].value)))

\* 2-2-2 has been evaluated, to (2-2)-2.
C2_Witness == \E h \in EndedOn(<<"2", "-", "2", "-", "2">>) : Returned(h, PyInt(-2))

\* A complete expression is followed by a token that is neither a sign nor
\* the end: an integer.
Trailing(toks) ==
    \E k \in 1..(Len(toks) - 1) : Chain(toks, k) /\ toks[k + 1].type = INTEGER

\* C3: a line with tokens left after a complete expression is never
\* evaluated to a value: the evaluation fails.
C3_TrailingRejected ==
    \A h \in Ended : Trailing(Tokenize(h.text)) => h.exc # NoExc

\* The line without its blanks.
Strip(t) == SelectSeq(t, LAMBDA c : c # Blank)

\* C4: two lines of the same tokens that differ in their blanks only end the
\* same way: the same value, or the same exception.
C4_WhitespaceInsignificant ==
    \A g, h \in Ended :
        Strip(g.text) = Strip(h.text) /\ SameTokens(Tokenize(g.text), Tokenize(h.text))
            => g.exc = h.exc /\ g.printed = h.printed

\* 2+2 and then 2+ 2 have been evaluated, the second to 4.
C4_Witness ==
    /\ Len(history) >= 2
    /\ history[1].text = <<"2", "+", "2">>
    /\ history[2].text = <<"2", "+", " ", "2">>
    /\ Returned(history[2], PyInt(4))

\* C5: when parse_integer returns, the digits it took are the whole run of
\* digits that ends before the cursor, the cursor is on the first character
\* after the run (or at the end), and the INTEGER token holds the number the
\* run denotes, which is not negative.
C5_MaximalMunch ==
    [][Running("parse_integer") /\ Len(stack') < Len(stack)
          => LET run == Top.result
                 n   == Len(run)
             IN  /\ n >= 1 /\ n <= pos
                 /\ run = SubSeq(text, pos - n + 1, pos)
                 /\ \A i \in 1..n : IsDecimal(run[i])
                 /\ pos < Len(text) => ~IsDecimal(text[pos + 1])
                 /\ pos' = pos
                 /\ current_token'.type = INTEGER
                 /\ current_token'.value = Denoted(text, pos - n + 1, pos)
                 /\ current_token'.value >= 0]_vars

\* 20+2 has been evaluated, to 22.
C5_Witness == \E h \in EndedOn(<<"2", "0", "+", "2">>) : Returned(h, PyInt(22))

\* C6 as claimed: every line in which a / has the integer 0 on its right
\* fails with ZeroDivisionError.
C6_AnyLine ==
    \A h \in Ended : ZeroDivisor(Tokenize(h.text)) => h.exc = ZeroDivisionError

\* The evaluation comes to a division by zero: the tokens up to a / with the
\* integer 0 on its right are a chain, and what follows that 0 is a token
\* or the end of the line (eat reads it before the division is made).
DivisionReached(toks) ==
    \E k \in 1..(Len(toks) - 2) :
        /\ Chain(toks, k + 1)
        /\ toks[k].type = M_SIGN /\ toks[k].value = "/"
        /\ toks[k + 1].value = 0
        /\ toks[k + 2].type # "ERROR"

\* C6: a line whose evaluation comes to a division by zero fails with
\* ZeroDivisionError, and no value is printed for it.
C6_DivisionByZero ==
    \A h \in Ended :
        DivisionReached(Tokenize(h.text))
            => h.exc = ZeroDivisionError /\ h.printed = NoResult

\* 20/0 has been evaluated, and failed with ZeroDivisionError.
C6_Witness == \E h \in EndedOn(<<"2", "0", "/", "0">>) : h.exc = ZeroDivisionError

\* The evaluation comes to an operand position (the start of the line, or
\* right after a sign) at which the token is a sign or the end.  A division
\* by zero further left ends the evaluation before it comes there.
MissingOperand(toks) ==
    \E k \in 1..Len(toks) :
        /\ k = 1 \/ (k >= 3 /\ Chain(toks, k - 2) /\ IsSign(toks[k - 1]))
        /\ toks[k].type \in {S_SIGN, M_SIGN, EOF}
        /\ ~ZeroDivisor(SubSeq(toks, 1, k - 1))

\* C7: factor is called by way of eat(INTEGER) only; it returns only when
\* the token it found was an INTEGER; when the current token is not one, eat
\* raises "Invalid syntax", which ends the evaluation without a value; so
\* does every line with a missing operand.
C7_FactorNeedsInteger ==
    /\ [](/\ Running("factor") /\ Top.at = "return" => Top.token.type = INTEGER
          /\ Running("eat") /\ Top.token_type = INTEGER => Caller.fn = "factor"
          /\ \A h \in Ended : MissingOperand(Tokenize(h.text)) => h.exc = InvalidSyntax)
    /\ [][Running("eat") /\ Top.token_type = INTEGER /\ current_token.type # INTEGER
             => /\ stack' = <<>>
                /\ exc' = InvalidSyntax
                /\ history' = Append(history, Outcome(text, InvalidSyntax, NoResult))]_vars

\* 2+ has been evaluated, and failed with "Invalid syntax".
C7_Witness == \E h \in EndedOn(<<"2", "+">>) : h.exc = InvalidSyntax

\* C8: the exception raised for a character that begins no token carries
\* that character and its position.
C8_ErrorCarriesCulprit ==
    exc.msg = "Invalid character"
        => /\ Len(exc.args) = 2
           /\ exc.args[1] = text[pos + 1]
           /\ exc.args[2] = pos

\* C9: when the evaluation of a line fails, main is at its prompt again.
C9_DriverSurvives ==
    [][exc = NoExc /\ exc' # NoExc
          => /\ stack' # <<>>
             /\ stack'[Len(stack')].fn = "main"
             /\ stack'[Len(stack')].at = "input"]_vars

\* C10: two evaluations of one line end the same way, whatever was evaluated
\* before and between them; every evaluation starts from a Lexer at position
\* 0 of its own line and an Interpreter whose current token is the first
\* token of that line.
C10_Deterministic ==
    /\ \A g, h \in Ended : g.text = h.text => g.exc = h.exc /\ g.printed = h.printed
    /\ Running("main") /\ Top.at = "Interpreter"
           => text = Top.text /\ pos = 0 /\ current_char = text[1]
    /\ Running("main") /\ Top.at = "expr"
           => text = Top.text /\ SameToken(current_token, Tokenize(text)[1])

\* 2+2 has been evaluated, then 2 +2, then 2+2 again, to 4.
C10_Witness ==
    /\ Len(history) = 3
    /\ history[1].text = <<"2", "+", "2">>
    /\ history[2].text = <<"2", " ", "+", "2">>
    /\ history[3].text = <<"2", "+", "2">>
    /\ Returned(history[1], PyInt(4)) /\ Returned(history[3], PyInt(4))

\* C11: main constructs a Lexer for a non-empty line only, so that text[0]
\* in Lexer.__init__ never raises IndexError; when main reads an empty line
\* it is at its prompt again, and the Lexer and the Interpreter are as they
\* were.
C11_EmptyLineSkipped ==
    /\ [](/\ Running("main") /\ Top.at = "Lexer" => Len(Top.text) > 0
          /\ exc # IndexError
          /\ stack # <<>> => text # <<>> \/ current_token = NoToken)
    /\ [][Running("main") /\ Top.at = "input" /\ stdin # <<>> /\ Head(stdin) = <<>>
             => /\ stack' = <<[MainFrame EXCEPT !.result = Top.result]>>
                /\ UNCHANGED <<text, pos, current_char, current_token, exc, history>>]_vars

\* The session of an empty line, a line of one blank and an empty line is
\* over: all three lines have been read, and only the line of one blank was
\* evaluated.
C11_Witness ==
    /\ stdin = <<>>
    /\ Running("main") /\ Top.at = "input" /\ Top.text = <<>>
    /\ Len(history) = 1 /\ history[1].text = <<Blank>>

\* Some frame of m_expr or of expr goes on from its eat to its operand: one
\* turn of its loop has its sign.
SignEaten ==
    \E i \in 1..Len(stack) :
        /\ stack[i].fn \in {"m_expr", "expr"} /\ stack[i].at = "eat"
        /\ i <= Len(stack') /\ stack'[i].fn = stack[i].fn /\ stack'[i].at = "operand"

\* C12: the evaluation of a non-empty line ends, with a value or with an
\* exception; advance() is called at most as many times as the line has
\* characters, each call moving the cursor by one; every turn of the loops
\* of skip_whitespace and parse_integer is a call of advance(),
\* skip_whitespace returns to the loop of get_next_token only after it has
\* advanced over a blank, and every turn of the loops of m_expr and expr
\* takes one more token from the lexer.
C12_Terminates ==
    /\ (Running("main") /\ Top.at = "Lexer") ~> (history # <<>>)
    /\ [](/\ advances <= Len(text) /\ advances = pos
          /\ Running("skip_whitespace") /\ current_char # Blank
                => pos >= 1 /\ text[pos] = Blank)
    /\ [][/\ Running("skip_whitespace") /\ Len(stack') = Len(stack)
                => advances' = advances + 1 /\ pos' = pos + 1
          /\ Running("parse_integer") /\ Len(stack') = Len(stack)
                => advances' = advances + 1 /\ pos' = pos + 1
          /\ SignEaten => Len(lexed') = Len(lexed) + 1 /\ pos' >= pos]_vars

\* 2 +2 has been evaluated, to 4, with four calls of advance().
C12_Witness ==
    /\ \E h \in EndedOn(<<"2", " ", "+", "2">>) : Returned(h, PyInt(4))
    /\ advances = 4 /\ Len(lexed) = 4

\* The line has a lexical or a syntax error: it is no sentence of the
\* grammar.
Erroneous(line) == ~Grammatical(Tokenize(line))

\* C13: no value is printed for a line that has a lexical or a syntax
\* error; and an eat() that finds a token of another type than the expected
\* one raises "Invalid syntax" at once: it asks the lexer for nothing, and
\* the current token and the cursor are as they were.
C13_FailFast ==
    /\ [](\A h \in Ended : Erroneous(h.text) => h.exc # NoExc /\ h.printed = NoResult)
    /\ [][Running("eat") /\ current_token.type # Top.token_type
             => /\ exc' = InvalidSyntax /\ stack' = <<>>
                /\ UNCHANGED <<current_token, text, pos, current_char, lexed, advances>>]_vars

\* The step constructs a Lexer, or starts the program again.
NewLexer == (Running("main") /\ Top.at = "Lexer") \/ stack = <<>>

\* C14: the cursor is within 0..len(text); the cached character is the one
\* at the cursor while the cursor is before the end, and None exactly when
\* the cursor is at the end; the cursor of a Lexer never goes back and its
\* text never changes; every advance() moves the cursor by one, raises
\* nothing, and leaves the cursor at the end at most, where it reads no
\* character of the text.
C14_CursorInvariant ==
    /\ [](/\ 0 <= pos /\ pos <= Len(text)
          /\ pos < Len(text) => current_char = text[pos + 1]
          /\ current_char = None <=> pos >= Len(text))
    /\ [][/\ pos' >= pos \/ NewLexer
          /\ text' # text => NewLexer
          /\ advances' = advances + 1
                => /\ pos < Len(text) /\ pos' = pos + 1
                   /\ exc' = exc /\ stack' # <<>>]_vars

\* In one run of the program 2+2 has been evaluated, and the Lexer of the
\* next line, of four characters, has come to the end of its text at its
\* fourth advance().
C14_Witness ==
    /\ stack # <<>> /\ Len(history) = 1 /\ Returned(history[1], PyInt(4))
    /\ Len(text) = 4 /\ pos = 4 /\ advances = 4 /\ current_char = None

\* A call of get_next_token is under way.
InLexer == \E i \in 1..Len(stack) : stack[i].fn = "get_next_token"

\* The tokens of the part of the text before the cursor, without the end.
Behind == LET toks == Tokenize(SubSeq(text, 1, pos))
          IN  SubSeq(toks, 1, Len(toks) - 1)

WithoutEnd(toks) == SelectSeq(toks, LAMBDA tok : tok.type # EOF)

\* C15: the current token of the Interpreter is the last token its Lexer
\* returned; the tokens the Lexer has returned are, in their order and each
\* once, the first tokens of the line; between two calls of get_next_token
\* the Lexer has read the line up to the end of the current token and no
\* further; get_next_token is called by Interpreter.__init__ for the first
\* token and by an eat() that found the token it expected, and by nothing
\* else; the current token changes only by one more token being returned.
C15_SingleLookahead ==
    /\ [](/\ lexed # <<>> => SameToken(current_token, lexed[Len(lexed)])
          /\ Len(lexed) <= Len(Tokenize(text))
          /\ \A k \in 1..Len(lexed) : SameToken(lexed[k], Tokenize(text)[k])
          /\ ~InLexer /\ lexed # <<>> => SameTokens(WithoutEnd(lexed), Behind)
          /\ \A i \in 1..Len(stack) :
                stack[i].fn = "get_next_token"
                    => \/ stack[i - 1].fn = "Interpreter.__init__" /\ lexed = <<>>
                       \/ /\ stack[i - 1].fn = "eat" /\ lexed # <<>>
                          /\ stack[i - 1].token_type = current_token.type)
    /\ [][/\ Len(lexed') > Len(lexed)
                => /\ Len(lexed') = Len(lexed) + 1
                   /\ SubSeq(lexed', 1, Len(lexed)) = lexed
                   /\ Running("get_next_token") \/ Running("parse_integer")
          /\ Len(lexed') = Len(lexed) /\ stack # <<>>
                => SameToken(current_token', current_token)]_vars

\* 2+2 has been evaluated, to 4: the Lexer has returned the four tokens of
\* the line and the current token is the end.
C15_Witness ==
    /\ text = <<"2", "+", "2">> /\ \E h \in EndedOn(text) : Returned(h, PyInt(4))
    /\ Len(lexed) = 4 /\ SameTokens(lexed, Tokenize(text))
    /\ current_token.type = EOF

\* The kind and the payload of a token agree.
WellFormed(tok) ==
    CASE tok.type = INTEGER -> tok.value \in Nat
      [] tok.type = S_SIGN  -> tok.value \in {"+", "-"}
      [] tok.type = M_SIGN  -> tok.value \in {"*", "/"}
      [] tok.type = EOF     -> tok.value = None
      [] OTHER              -> FALSE

\* The kind of the token that begins with the character c, None being the
\* end of the text.
KindOf(c) ==
    IF c = None THEN EOF
    ELSE IF IsDecimal(c) THEN INTEGER
    ELSE IF c \in {"+", "-"} THEN S_SIGN
    ELSE IF c \in {"*", "/"} THEN M_SIGN
    ELSE "ERROR"

\* C16: in every token get_next_token returns the kind and the payload
\* agree: an INTEGER holds a natural number, an S_SIGN + or -, an M_SIGN * or
\* /, an EOF None.  The kind is that of the first character after the blanks
\* at the cursor: get_next_token moves the cursor over blanks only before it
\* decides, it returns the sign or the end it stands on, and the INTEGER of
\* the run of digits it stood on.
C16_WellFormedTokens ==
    /\ [](\A k \in 1..Len(lexed) : WellFormed(lexed[k]))
    /\ [][/\ Len(lexed') > Len(lexed)
                => LET tok == lexed'[Len(lexed')]
                   IN  IF Running("parse_integer")
                       THEN LET first == pos - Len(Top.result) + 1
                            IN  /\ first <= pos
                                /\ tok.type = KindOf(text[first])
                                /\ tok.type = INTEGER
                                /\ tok.value = Denoted(text, first, pos)
                       ELSE /\ Running("get_next_token")
                            /\ tok.type = KindOf(current_char)
                            /\ tok.value = current_char
          /\ Len(lexed') = Len(lexed) /\ pos' > pos
                => \/ Running("skip_whitespace") /\ current_char = Blank
                   \/ Running("parse_integer") /\ IsDecimal(current_char)
          /\ Running("get_next_token") /\ Len(stack') > Len(stack)
                => /\ pos' = pos
                   /\ stack'[Len(stack')].fn = "parse_integer" => IsDecimal(current_char)
                   /\ stack'[Len(stack')].fn = "skip_whitespace" => current_char = Blank]_vars

\* The Lexer of the line 2+0* has returned a token of each kind: 2, +, 0, *
\* and the end.
C16_Witness ==
    /\ text = <<"2", "+", "0", "*">>
    /\ Len(lexed) = 5
    /\ {lexed[k].type : k \in 1..5} = {INTEGER, S_SIGN, M_SIGN, EOF}

\* get_next_token has returned EOF.
EndReturned == \E k \in 1..Len(lexed) : lexed[k].type = EOF

\* C20: once get_next_token has returned EOF, every later call on the same
\* Lexer returns EOF again, with no payload; nothing is raised, and the
\* cursor and the cached character stay as they are.
C20_EndAbsorbing ==
    /\ [](EndReturned
            => /\ exc = NoExc /\ pos = Len(text) /\ current_char = None
               /\ \A j, k \in 1..Len(lexed) :
                     lexed[j].type = EOF /\ j <= k
                         => lexed[k].type = EOF /\ lexed[k].value = None)
    /\ [][EndReturned
            => /\ pos' = pos /\ current_char' = current_char /\ text' = text
               /\ advances' = advances /\ exc' = NoExc /\ stack' # <<>>]_vars

\* The Lexer of the text 2 has been asked for more tokens after it returned
\* EOF, MaxCalls times in all, and has returned 2 and then EOF each time.
C20_Witness ==
    /\ text = <<"2">> /\ Len(lexed) = MaxCalls /\ MaxCalls >= 3
    /\ lexed[1].type = INTEGER
    /\ \A k \in 2..MaxCalls : lexed[k].type = EOF
    /\ Running("client") /\ pos = 1

\* An eat() returns to its caller.
EatReturns ==
    /\ stack' # <<>>
    /\ \E i \in 1..Len(stack) : stack[i].fn = "eat" /\ Len(stack') < i

\* C17: eat() either asks for the next token, which takes the place of the
\* current one, or raises: a step of eat is a call of get_next_token or an
\* exception, and when eat returns, the current token is a token that
\* get_next_token has just returned.
C17_EatConsumesOrRaises ==
    [][/\ Running("eat")
            => \/ exc' # NoExc /\ stack' = <<>>
               \/ stack' = Append(stack, [fn |-> "get_next_token"])
       /\ EatReturns
            => /\ Len(lexed') = Len(lexed) + 1
               /\ SameToken(current_token', lexed'[Len(lexed')])]_vars

\* The line is INTEGER SIGN INTEGER (SIGN INTEGER)* with all its signs of
\* one class, + and - or * and /.
Homogeneous(toks) ==
    /\ Grammatical(toks) /\ Len(toks) >= 4
    /\ \A k \in 1..Len(toks) : IsSign(toks[k]) => toks[k].type = toks[2].type

\* The sign toks[k] is the first of the chain that is of the other class
\* than the first sign.
FirstForeign(toks, k) ==
    /\ Grammatical(toks) /\ k \in 4..Len(toks)
    /\ IsSign(toks[k]) /\ toks[k].type # toks[2].type
    /\ \A j \in 1..(k - 1) : IsSign(toks[j]) => toks[j].type = toks[2].type

\* The value of a chain, its signs applied from the left.
Fold(toks) == TermValue(toks, 1, Len(toks) - 1)

\* calc3 returns the fold of a chain of signs of one class.
FoldReturned ==
    \A h \in Ended :
        LET toks == Tokenize(h.text)
        IN  Homogeneous(toks) /\ ~ZeroDivisor(toks) => Returned(h, Fold(toks))

\* Once expr is running, the evaluation ends.
ExprTerminates == Running("expr") ~> (history # <<>>)

\* C18 as claimed: calc3 returns the fold of a chain of signs of one class;
\* expr terminates; every chain with a later sign of the other class than
\* the first ends in the parsing error.
C18_ForeignSignIsParsingError ==
    /\ []FoldReturned
    /\ ExprTerminates
    /\ [](\A h \in Ended :
            (\E k \in 1..Len(Tokenize(h.text)) : FirstForeign(Tokenize(h.text), k))
                => h.exc = Calc3Error)

\* C18: calc3 returns the fold of a chain of signs of one class in which no
\* division is by zero; expr terminates; a chain with a later sign of the
\* other class than the first never comes to a value: it ends in the
\* parsing error, or, when a division to the left of that sign is by zero,
\* in ZeroDivisionError.
C18_HomogeneousChains ==
    /\ []FoldReturned
    /\ ExprTerminates
    /\ [](\A h \in Ended :
            LET toks == Tokenize(h.text)
            IN  \A k \in 1..Len(toks) :
                    FirstForeign(toks, k)
                        => /\ h.printed = NoResult
                           /\ h.exc = IF ZeroDivisor(SubSeq(toks, 1, k - 1))
                                      THEN ZeroDivisionError ELSE Calc3Error)

\* 2/2/2 has been evaluated, to (2/2)/2, one half.
C18_Witness ==
    \E h \in EndedOn(<<"2", "/", "2", "/", "2">>) :
        Returned(h, [num |-> 1, den |-> 2, float |-> TRUE])

\* The line is INTEGER SIGN INTEGER, with blanks anywhere around its tokens.
IsISI(line) == Grammatical(Tokenize(line)) /\ Len(Tokenize(line)) = 4

\* C19: on a line INTEGER SIGN INTEGER, whatever the number of digits of its
\* integers and the blanks around its tokens, calc1 reads no character
\* outside the text (no IndexError), look_for_number returns with the
\* cursor and current_char on the last digit of the number it found, the
\* token after the right operand is EOF, and expr returns the result of the
\* operation (of a division, when the divisor is not zero).
C19_ScannerInBounds ==
    /\ IsISI(text) => exc # IndexError
    /\ IsISI(text) /\ Running("look_for_number") /\ Top.at = "return"
          /\ Top.number_token # <<>>
          => LET n == Len(Top.number_token)
             IN  /\ current_char = text[pos + 1]
                 /\ Top.number_token = SubSeq(text, pos - n + 2, pos + 1)
                 /\ \A i \in 1..n : IsDecimal(Top.number_token[i])
                 /\ pos + 1 < Len(text) => ~IsDecimal(text[pos + 2])
    /\ IsISI(text) /\ Running("expr") /\ Top.at = "compute" => current_token.type = EOF
    /\ \A h \in Ended :
          IsISI(h.text)
              => \/ Returned(h, Fold(Tokenize(h.text)))
                 \/ ZeroDivisor(Tokenize(h.text)) /\ h.exc = ZeroDivisionError

\* The tokens the grammar procedures have taken: all that the Lexer
\* returned but the current one.
Consumed == SubSeq(lexed, 1, Len(lexed) - 1)

\* Where the last term of the consumed tokens begins: after their last + or
\* -, or at their first token.
TermStart ==
    LET sums == {k \in 1..Len(Consumed) : Consumed[k].type = S_SIGN}
    IN  IF sums = {} THEN 1 ELSE 1 + CHOOSE k \in sums : \A m \in sums : m <= k

\* The top frame returns to its caller.
ReturnsNormally(fn) == Running(fn) /\ Len(stack') = Len(stack) - 1

\* C21: when m_expr returns, the current token is no M_SIGN, and what it
\* returns is the value of the term it has taken, every * and / of it
\* applied to the factor on its right; when expr returns, the current token
\* is EOF or an INTEGER, and what it returns is the value of all the tokens
\* taken, every sign of them applied to what follows it.  Neither of them
\* changes the current token by returning.
C21_StoppingCondition ==
    [][/\ ReturnsNormally("m_expr")
            => /\ current_token.type # M_SIGN
               /\ SameToken(current_token', current_token)
               /\ Chain(Consumed, Len(Consumed))
               /\ Top.result = TermValue(Consumed, TermStart, Len(Consumed))
       /\ ReturnsNormally("expr")
            => /\ current_token.type \in {EOF, INTEGER}
               /\ SameToken(current_token', current_token)
               /\ Chain(Consumed, Len(Consumed))
               /\ Top.result = ExprValue(Consumed, 1, Len(Consumed))
               /\ stack'[Len(stack')].result = Top.result]_vars

\* 2-0 2 has been evaluated: expr returned 2 - 0 with the INTEGER 2 as the
\* current token.
C21_Witness ==
    /\ \E h \in EndedOn(<<"2", "-", "0", " ", "2">>) : Returned(h, PyInt(2))
    /\ current_token.type = INTEGER /\ Len(lexed) = 4

====
